---- MODULE Spec2Model ----
(***************************************************************************)
(* Payment-plan calculator (src/src/App.tsx, component PaymentPlanner).    *)
(*                                                                         *)
(* The state is the component's React state (the useState cells that feed  *)
(* the computation); every useMemo value is a function of that state and   *)
(* is an operator here, under the name it has in the source.               *)
(*                                                                         *)
(* Numbers: the source computes on IEEE doubles.  Amounts are modelled in  *)
(* COP as exact integers; the one quotient of the computation (raw) is     *)
(* kept as a fraction num/den and only ever rounded, as in the source.     *)
(* The enumerated inputs are integers; non-integer months or amounts typed *)
(* into a number field are outside the enumerated inputs.                  *)
(***************************************************************************)
EXTENDS Integers, Sequences, FiniteSets, TLC

VARIABLES area, pricePerM2, months, balloonPct, initialPayment, startMonth,
          roundingMultiple, extras

vars == <<area, pricePerM2, months, balloonPct, initialPayment, startMonth,
          roundingMultiple, extras>>

(***************************************************************************)
(* Bounds and enumerated inputs                                            *)
(***************************************************************************)
\* Largest number of extraordinary entries kept in the list.
MaxExtras == 2

\* What can be typed into a number field: nothing, or a number.
RawInputs(S) == {[empty |-> TRUE, n |-> 0]} \cup {[empty |-> FALSE, n |-> x] : x \in S}

AreaTyped == {-2, 500}
MonthsTyped == {36, 241}
BalloonPctTyped == {-5, 25, 95}
InitialTyped == {20000000, 200000000}
ExtraMonthTyped == {1, 12}
ExtraAmountTyped == {20000000, 200000000}
\* Options of the two <select> fields that are enumerated.
PriceSelected == {280000, 350000}
RoundingOptions == {0, 10000, 50000}
\* Values of the month field, "YYYY-MM".
StartMonthTyped == {[y |-> 2025, m |-> 1], [y |-> 2025, m |-> 12]}

(***************************************************************************)
(* Utilities                                                               *)
(***************************************************************************)
Max(a, b) == IF a >= b THEN a ELSE b
Min(a, b) == IF a <= b THEN a ELSE b

clamp(val, min, max) == Max(min, Min(max, val))

\* Math.ceil / Math.floor of the fraction num/den, den > 0.
Floor(num, den) == num \div den
Ceil(num, den) == -((-num) \div den)

\* n is a fraction [num, den].
roundCeilToMultiple(n, mult) ==
    IF mult = 0 \/ mult <= 0
    THEN Ceil(n.num, n.den)
    ELSE Ceil(n.num, n.den * mult) * mult

roundFloorToMultiple(n, mult) ==
    IF mult = 0 \/ mult <= 0
    THEN Floor(n.num, n.den)
    ELSE Floor(n.num, n.den * mult) * mult

safeNumber(v) == IF v.empty THEN 0 ELSE v.n

BASE_PRICE_PER_M2 == 365000

\* The id of an entry (safeUUID) is unique in the list and is read only to
\* find the entry again: an entry is identified by its position instead.
defaultExtra == [month |-> 12, amount |-> 0]

(***************************************************************************)
(* Dates, month by month.  A Date is [year, month] with month in 0..11     *)
(* (getUTCFullYear, getUTCMonth); the day is always 1.                     *)
(***************************************************************************)
monthNamesEs ==
    <<"enero", "febrero", "marzo", "abril", "mayo", "junio", "julio",
      "agosto", "septiembre", "octubre", "noviembre", "diciembre">>

formatMonthEs(date) == [m |-> monthNamesEs[date.month + 1], y |-> date.year]

\* setUTCMonth carries a month outside 0..11 into the year.
addMonths(date, n) ==
    LET total == date.month + n
    IN  [year |-> date.year + (total \div 12), month |-> total % 12]

\* ym is the field's "YYYY-MM", held as its two numbers.
parseMonthStr(ym) ==
    [year |-> ym.y, month |-> (IF ym.m = 0 THEN 1 ELSE ym.m) - 1]

(***************************************************************************)
(* Price                                                                   *)
(***************************************************************************)
fullPrice == clamp(area, 1, 1000000) * BASE_PRICE_PER_M2

negotiatedPrice == clamp(area, 1, 1000000) * clamp(pricePerM2, 0, 100000000)

discountAmount == Max(0, fullPrice - negotiatedPrice)

netPrice == negotiatedPrice

\* The balloon target without the ceiling on the percentage.
balloonValue_Unclamped == (netPrice \div 100) * balloonPct

\* (netPrice * pct) / 100.  netPrice is a multiple of 100 for every area and
\* price enumerated here, so dividing first is exact and keeps the product
\* within TLC's integers.
balloonValue == (netPrice \div 100) * clamp(balloonPct, 0, 90)

cappedInitial == clamp(initialPayment, 0, Max(0, netPrice))

(***************************************************************************)
(* Extraordinary payments, ordered by month                                *)
(***************************************************************************)
\* Array.prototype.sort with (a, b) => a.month - b.month: stable.
RECURSIVE InsertByMonth(_, _)
InsertByMonth(e, sorted) ==
    IF sorted = <<>> THEN <<e>>
    ELSE IF sorted[Len(sorted)].month <= e.month THEN Append(sorted, e)
    ELSE Append(InsertByMonth(e, SubSeq(sorted, 1, Len(sorted) - 1)),
                sorted[Len(sorted)])

\* A sort that puts an entry before the entries of its own month.
RECURSIVE InsertByMonthUnstable(_, _)
InsertByMonthUnstable(e, sorted) ==
    IF sorted = <<>> THEN <<e>>
    ELSE IF sorted[Len(sorted)].month < e.month THEN Append(sorted, e)
    ELSE Append(InsertByMonthUnstable(e, SubSeq(sorted, 1, Len(sorted) - 1)),
                sorted[Len(sorted)])

RECURSIVE SortUnstable(_)
SortUnstable(xs) ==
    IF xs = <<>> THEN <<>>
    ELSE InsertByMonthUnstable(xs[Len(xs)], SortUnstable(SubSeq(xs, 1, Len(xs) - 1)))

RECURSIVE sortByMonth(_)
sortByMonth(xs) ==
    IF xs = <<>> THEN <<>>
    ELSE InsertByMonth(xs[Len(xs)], sortByMonth(SubSeq(xs, 1, Len(xs) - 1)))

KeepsExtra(e) == e.amount > 0 /\ e.month >= 1

orderedExtras == sortByMonth(SelectSeq(extras, KeepsExtra))

(***************************************************************************)
(* The schedule                                                            *)
(***************************************************************************)
M_Unclamped == months

M == clamp(months, 1, 240)

InRange(e) == e.amount > 0 /\ e.month >= 1 /\ e.month <= M

validExtras == SelectSeq(orderedExtras, InRange)

\* reduce((s, r) => s + r.amount, 0), the list halved as above.
RECURSIVE SumRows(_)
SumRows(rs) ==
    IF rs = <<>> THEN 0
    ELSE IF Len(rs) = 1 THEN rs[1].amount
    ELSE LET mid == Len(rs) \div 2
         IN  SumRows(SubSeq(rs, 1, mid)) + SumRows(SubSeq(rs, mid + 1, Len(rs)))

extrasSum == SumRows(validExtras)

baseForMonthly == Max(0, netPrice - cappedInitial - balloonValue - extrasSum)

\* A count of the months that carry an extra, rather than of the entries.
numMonthlyPayments_Distinct ==
    Max(0, M - Cardinality({validExtras[i].month : i \in 1..Len(validExtras)}))

numMonthlyPayments == Max(0, M - Len(validExtras))

\* baseForMonthly / numMonthlyPayments, read only when numMonthlyPayments > 0.
raw == [num |-> baseForMonthly, den |-> numMonthlyPayments]

candidateUp_CeilOnly == Ceil(raw.num, raw.den)

candidateUp == roundCeilToMultiple(raw, roundingMultiple)

totalMonthlyUp == candidateUp * numMonthlyPayments

balloonAfterUp == balloonValue - (totalMonthlyUp - baseForMonthly)

\* A fallback that rounds up again instead of down.
candidateDown_RoundedUp == Max(0, roundCeilToMultiple(raw, roundingMultiple))

candidateDown == Max(0, roundFloorToMultiple(raw, roundingMultiple))

totalMonthlyDown == candidateDown * numMonthlyPayments

\* An installment that is rounded up whatever becomes of the balloon.
monthlyInstallment_AlwaysUp ==
    IF numMonthlyPayments > 0 THEN candidateUp ELSE 0

monthlyInstallment ==
    IF numMonthlyPayments > 0
    THEN IF balloonAfterUp >= 0 THEN candidateUp ELSE candidateDown
    ELSE 0

adjustedBalloon_AlwaysUp ==
    IF numMonthlyPayments > 0 THEN balloonAfterUp ELSE balloonValue

\* A balloon that does not absorb the rounding of the installments.
adjustedBalloon_Unadjusted == balloonValue

adjustedBalloon ==
    IF numMonthlyPayments > 0
    THEN IF balloonAfterUp >= 0
         THEN balloonAfterUp
         ELSE Max(0, balloonValue + (baseForMonthly - totalMonthlyDown))
    ELSE balloonValue

InitialRow ==
    [type |-> "initial", label |-> <<"Cuota inicial">>, month |-> 0,
     amount |-> cappedInitial]

\* groupByPolyfill(arr, e => e.month)[String(m)] || []
extrasByMonth(arr, m) == SelectSeq(arr, LAMBDA e : e.month = m)

ExtraRow(m, ex) ==
    [type |-> "extra", label |-> <<"Extraordinaria (mes)", m>>, month |-> m,
     amount |-> ex.amount]

\* A monthly row whose amount depends on the month.
MonthlyRow_Drifting(m, installment) ==
    [type |-> "monthly", label |-> <<"Cuota mensual", m>>, month |-> m,
     amount |-> installment + (IF m = 2 THEN 1 ELSE 0)]

MonthlyRow(m, installment) ==
    [type |-> "monthly", label |-> <<"Cuota mensual", m>>, month |-> m,
     amount |-> installment]

\* A loop body that adds the installment to a month with extras as well.
RowsOfMonth_Both(m, valid, installment) ==
    LET list == extrasByMonth(valid, m)
    IN  [i \in 1..Len(list) |-> ExtraRow(m, list[i])]
            \o <<MonthlyRow(m, installment)>>

\* Body of the loop for (m = 1; m <= M; m++), over the values the loop
\* reads: validExtras and monthlyInstallment.
RowsOfMonth(m, valid, installment) ==
    LET list == extrasByMonth(valid, m)
    IN  IF Len(list) > 0
        THEN [i \in 1..Len(list) |-> ExtraRow(m, list[i])]
        ELSE <<MonthlyRow(m, installment)>>

\* The rows the loop pushes for m = lo..hi, in that order (the range is
\* halved rather than walked, which keeps the evaluation shallow).
RECURSIVE RowsOfMonths(_, _, _, _)
RowsOfMonths(lo, hi, valid, installment) ==
    IF lo > hi THEN <<>>
    ELSE IF lo = hi THEN RowsOfMonth(lo, valid, installment)
    ELSE LET mid == (lo + hi) \div 2
         IN  RowsOfMonths(lo, mid, valid, installment)
                 \o RowsOfMonths(mid + 1, hi, valid, installment)

BalloonRow_AtM ==
    [type |-> "balloon", label |-> <<"Ultima cuota (balloon)">>, month |-> M,
     amount |-> adjustedBalloon]

BalloonRow ==
    [type |-> "balloon", label |-> <<"Ultima cuota (balloon)">>, month |-> M + 1,
     amount |-> adjustedBalloon]

schedule ==
    LET valid == validExtras
        installment == monthlyInstallment
    IN  <<InitialRow>> \o RowsOfMonths(1, M, valid, installment) \o <<BalloonRow>>

OfType(rs, t) == SelectSeq(rs, LAMBDA r : r.type = t)

\* find(...)?.amount ?? 0
FirstAmount(rs) == IF rs = <<>> THEN 0 ELSE rs[1].amount

totals ==
    LET rows == schedule
        monthlyTotal == SumRows(OfType(rows, "monthly"))
        extrasTotal == SumRows(OfType(rows, "extra"))
        initial == FirstAmount(OfType(rows, "initial"))
        balloon == FirstAmount(OfType(rows, "balloon"))
    IN  [monthlyTotal |-> monthlyTotal, extrasTotal |-> extrasTotal,
         initial |-> initial, balloon |-> balloon,
         grand |-> initial + monthlyTotal + extrasTotal + balloon]

offset_NoShift(r) == Max(0, r.month)

\* 0 for the initial row; m - 1 for monthly and extra rows; M for the balloon.
offset(r) == Max(0, r.month - 1)

scheduleWithDates ==
    LET base == parseMonthStr(startMonth)
        rows == schedule
    IN  [i \in 1..Len(rows) |->
            [type |-> rows[i].type, label |-> rows[i].label,
             month |-> rows[i].month, amount |-> rows[i].amount,
             date |-> formatMonthEs(addMonths(base, offset(rows[i])))]]

(***************************************************************************)
(* The component's state and its handlers                                  *)
(***************************************************************************)
Init ==
    /\ area = 500
    /\ pricePerM2 = 350000
    /\ months = 36
    /\ balloonPct = 25
    /\ initialPayment = 20000000
    /\ startMonth \in StartMonthTyped
    /\ roundingMultiple = 0
    /\ extras = <<defaultExtra>>

setArea ==
    /\ \E v \in RawInputs(AreaTyped) : area' = safeNumber(v)
    /\ UNCHANGED <<pricePerM2, months, balloonPct, initialPayment, startMonth,
                   roundingMultiple, extras>>

setPricePerM2 ==
    /\ \E v \in PriceSelected : pricePerM2' = v
    /\ UNCHANGED <<area, months, balloonPct, initialPayment, startMonth,
                   roundingMultiple, extras>>

setMonths ==
    /\ \E v \in RawInputs(MonthsTyped) : months' = safeNumber(v)
    /\ UNCHANGED <<area, pricePerM2, balloonPct, initialPayment, startMonth,
                   roundingMultiple, extras>>

setBalloonPct ==
    /\ \E v \in RawInputs(BalloonPctTyped) : balloonPct' = safeNumber(v)
    /\ UNCHANGED <<area, pricePerM2, months, initialPayment, startMonth,
                   roundingMultiple, extras>>

setInitialPayment ==
    /\ \E v \in RawInputs(InitialTyped) : initialPayment' = safeNumber(v)
    /\ UNCHANGED <<area, pricePerM2, months, balloonPct, startMonth,
                   roundingMultiple, extras>>

setStartMonth ==
    /\ \E v \in StartMonthTyped : startMonth' = v
    /\ UNCHANGED <<area, pricePerM2, months, balloonPct, initialPayment,
                   roundingMultiple, extras>>

setRoundingMultiple ==
    /\ \E v \in RoundingOptions : roundingMultiple' = v
    /\ UNCHANGED <<area, pricePerM2, months, balloonPct, initialPayment,
                   startMonth, extras>>

addExtra ==
    /\ Len(extras) < MaxExtras
    /\ extras' = Append(extras, defaultExtra)
    /\ UNCHANGED <<area, pricePerM2, months, balloonPct, initialPayment,
                   startMonth, roundingMultiple>>

\* removeExtra(id), id being the id of the k-th entry.
removeExtra ==
    /\ \E k \in 1..Len(extras) :
          extras' = [i \in 1..(Len(extras) - 1) |->
                        IF i < k THEN extras[i] ELSE extras[i + 1]]
    /\ UNCHANGED <<area, pricePerM2, months, balloonPct, initialPayment,
                   startMonth, roundingMultiple>>

\* updateExtra(id, { month: v }), id being the id of the k-th entry.
updateExtraMonth ==
    /\ \E k \in 1..Len(extras), v \in RawInputs(ExtraMonthTyped) :
          extras' = [extras EXCEPT ![k].month = safeNumber(v)]
    /\ UNCHANGED <<area, pricePerM2, months, balloonPct, initialPayment,
                   startMonth, roundingMultiple>>

\* updateExtra(id, { amount: v }), id being the id of the k-th entry.
updateExtraAmount ==
    /\ \E k \in 1..Len(extras), v \in RawInputs(ExtraAmountTyped) :
          extras' = [extras EXCEPT ![k].amount = safeNumber(v)]
    /\ UNCHANGED <<area, pricePerM2, months, balloonPct, initialPayment,
                   startMonth, roundingMultiple>>

Next ==
    \/ setArea
    \/ setPricePerM2
    \/ setMonths
    \/ setBalloonPct
    \/ setInitialPayment
    \/ setStartMonth
    \/ setRoundingMultiple
    \/ addExtra
    \/ removeExtra
    \/ updateExtraMonth
    \/ updateExtraAmount

Spec == Init /\ [][Next]_vars

(***************************************************************************)
(* Properties                                                              *)
(***************************************************************************)
\* The financing horizon as the properties state it: months held to 1..240.
Horizon == IF months < 1 THEN 1 ELSE IF months > 240 THEN 240 ELSE months

Abs(x) == IF x < 0 THEN -x ELSE x

\* C1. Conservation: the grand total of the schedule (initial row, monthly
\* rows, extra rows and balloon row) differs from netPrice by at most one
\* currency unit.
C1_Conservation == Abs(totals.grand - netPrice) <= 1

\* C2. Exclusivity: a month that carries an entry of the extras list with
\* amount > 0 and month >= 1 has no row of type "monthly".
C2_Exclusivity ==
    LET rows == schedule
    IN  \A k \in 1..Len(extras) :
            (extras[k].amount > 0 /\ extras[k].month >= 1) =>
                \A i \in 1..Len(rows) :
                    ~(rows[i].type = "monthly" /\ rows[i].month = extras[k].month)

\* A schedule with an extra row in one month and monthly rows in others.
C2_Witness ==
    LET rows == schedule
    IN  /\ \E k \in 1..Len(extras) :
              /\ extras[k].amount > 0
              /\ extras[k].month >= 1
              /\ \E i \in 1..Len(rows) :
                    rows[i].type = "extra" /\ rows[i].month = extras[k].month
        /\ \E i \in 1..Len(rows) : rows[i].type = "monthly"

\* C3. Uniformity: all rows of type "monthly" carry the same amount, which
\* is the installment computed by the reconciliation.
C3_Uniformity ==
    LET ms == OfType(schedule, "monthly")
        installment == monthlyInstallment
    IN  \A i \in 1..Len(ms) :
            ms[i].amount = ms[1].amount /\ ms[i].amount = installment

\* Several positive monthly rows beside an extra row, with rounding on.
C3_Witness ==
    LET ms == OfType(schedule, "monthly")
    IN  /\ Len(ms) >= 2
        /\ ms[1].amount > 0
        /\ roundingMultiple > 0
        /\ Len(validExtras) > 0

\* C4. Rounding conformance: with roundingMultiple > 0 the amount of every
\* "monthly" row is an exact multiple of roundingMultiple.
C4_RoundingConformance ==
    roundingMultiple > 0 =>
        LET ms == OfType(schedule, "monthly")
        IN  \A i \in 1..Len(ms) : ms[i].amount % roundingMultiple = 0

\* The round-down branch taken with rounding on and a positive installment.
C4_Witness ==
    LET rows == schedule
    IN  /\ roundingMultiple > 0
        /\ numMonthlyPayments > 0
        /\ balloonAfterUp < 0
        /\ \E i \in 1..Len(rows) : rows[i].type = "monthly" /\ rows[i].amount > 0

\* C5. Non-negativity: no row of the schedule has a negative amount; in
\* particular the balloon row, whatever the rounding multiple.
C5_NonNegativity ==
    LET rows == schedule
    IN  \A i \in 1..Len(rows) : rows[i].amount >= 0

\* Balloon percent 0, rounding up would need a negative balloon, and the
\* schedule's balloon row is the shortfall of the rounded-down installments.
C5_Witness ==
    LET rows == schedule
    IN  /\ balloonValue = 0
        /\ numMonthlyPayments > 0
        /\ balloonAfterUp < 0
        /\ rows[Len(rows)].type = "balloon"
        /\ rows[Len(rows)].amount = baseForMonthly - totalMonthlyDown
        /\ rows[Len(rows)].amount > 0

\* C6. Row order: one "initial" row (month 0, amount cappedInitial) first;
\* one "balloon" row (month Horizon + 1, amount adjustedBalloon) last; in
\* between, months 1..Horizon in increasing order, each with either exactly
\* one "monthly" row or one or more "extra" rows.  Stated on neighbours: the
\* month of a row is the month of the row before it or the next one, and
\* two rows of the same month are both "extra".
C6_RowOrder ==
    LET rows == schedule
        n == Len(rows)
    IN  /\ n >= 3
        /\ rows[1].type = "initial" /\ rows[1].month = 0
        /\ rows[1].amount = cappedInitial
        /\ rows[n].type = "balloon" /\ rows[n].month = Horizon + 1
        /\ rows[n].amount = adjustedBalloon
        /\ \A i \in 2..(n - 1) :
              /\ rows[i].type \in {"monthly", "extra"}
              /\ rows[i].month \in 1..Horizon
        /\ \A i \in 1..(n - 1) :
              \/ rows[i + 1].month = rows[i].month + 1
              \/ /\ rows[i + 1].month = rows[i].month
                 /\ rows[i].type = "extra"
                 /\ rows[i + 1].type = "extra"

\* A month with two extra rows between months with a monthly row, under a
\* months input that the clamp changes.
C6_Witness ==
    LET rows == schedule
    IN  /\ months # Horizon
        /\ \E i \in 2..(Len(rows) - 2) :
              /\ rows[i].type = "extra"
              /\ rows[i + 1].type = "extra"
              /\ rows[i + 1].month = rows[i].month
        /\ \E i \in 2..(Len(rows) - 1) : rows[i].type = "monthly"

\* Calendar months as the properties state them: the label of the plan's
\* start month, and the label of the calendar month after a given one.
StartLabel == [m |-> monthNamesEs[startMonth.m], y |-> startMonth.y]

MonthNumber(name) == CHOOSE k \in 1..12 : monthNamesEs[k] = name

NextLabel(l) ==
    IF MonthNumber(l.m) = 12
    THEN [m |-> monthNamesEs[1], y |-> l.y + 1]
    ELSE [m |-> monthNamesEs[MonthNumber(l.m) + 1], y |-> l.y]

\* C7 as stated. Date projection of month 1: the initial row (month 0) is
\* dated at the plan start month and every row of financing month 1 is dated
\* exactly one calendar month after the plan start month.
C7_MonthOneAfterStart ==
    LET rows == scheduleWithDates
    IN  \A i \in 1..Len(rows) :
            /\ rows[i].month = 0 => rows[i].date = StartLabel
            /\ rows[i].month = 1 => rows[i].date = NextLabel(StartLabel)

\* C7 as amended. The initial row (month 0) is dated at the plan start
\* month and every row of financing month 1 is dated in that same calendar
\* month, the plan start month itself.
C7_MonthOneAtStart ==
    LET rows == scheduleWithDates
    IN  \A i \in 1..Len(rows) :
            rows[i].month \in {0, 1} => rows[i].date = StartLabel

\* A plan that starts in December, has extra rows in month 1 and a second
\* financing month in January of the next year.
C7_Witness ==
    LET rows == scheduleWithDates
    IN  /\ startMonth.m = 12
        /\ rows[1].type = "initial" /\ rows[1].date = StartLabel
        /\ rows[2].type = "extra" /\ rows[2].month = 1
        /\ \E i \in 3..Len(rows) :
              /\ rows[i].type = "monthly"
              /\ rows[i].month = 2
              /\ rows[i].date = [m |-> "enero", y |-> startMonth.y + 1]

\* C8 as stated. Date projection of the balloon: the balloon row is dated in
\* the same calendar month as the rows of the last financing month.
C8_BalloonSameMonth ==
    LET rows == scheduleWithDates
        n == Len(rows)
    IN  \A i \in 1..(n - 1) :
            (rows[n].type = "balloon" /\ rows[i].month = Horizon) =>
                rows[n].date = rows[i].date

\* C8 as amended. The balloon row (month Horizon + 1) is dated exactly one
\* calendar month after the rows of the last financing month.
C8_BalloonMonthAfter ==
    LET rows == scheduleWithDates
        n == Len(rows)
    IN  /\ rows[n].type = "balloon"
        /\ rows[n].month = Horizon + 1
        /\ \E i \in 1..(n - 1) : rows[i].month = Horizon
        /\ \A i \in 1..(n - 1) :
              rows[i].month = Horizon => rows[n].date = NextLabel(rows[i].date)

\* A months input above 240: the last financing month, 240, falls in
\* December and carries a monthly row; the balloon is dated January of the
\* next year.
C8_Witness ==
    LET rows == scheduleWithDates
        n == Len(rows)
    IN  /\ months > 240
        /\ rows[n - 1].type = "monthly"
        /\ rows[n - 1].month = Horizon
        /\ rows[n - 1].date.m = "diciembre"
        /\ rows[n].type = "balloon"
        /\ rows[n].date = [m |-> "enero", y |-> rows[n - 1].date.y + 1]

\* The entries of the extras list that belong in the schedule, in input
\* order, and the extra rows of the schedule, in row order, both as
\* <<month, amount>>.
ExpectedExtras ==
    LET kept == SelectSeq(extras, LAMBDA e :
                    e.amount > 0 /\ e.month >= 1 /\ e.month <= Horizon)
    IN  [i \in 1..Len(kept) |-> <<kept[i].month, kept[i].amount>>]

ExtraRowsOfSchedule ==
    LET xs == OfType(schedule, "extra")
    IN  [i \in 1..Len(xs) |-> <<xs[i].month, xs[i].amount>>]

OfMonth(ps, m) == SelectSeq(ps, LAMBDA p : p[1] = m)

\* C9. Extraordinary-payment normalization: the "extra" rows are exactly
\* the input entries with amount > 0 and 1 <= month <= Horizon, by
\* ascending month, entries of one month in their input order.
C9_ExtrasNormalized ==
    LET rows == ExtraRowsOfSchedule
        want == ExpectedExtras
    IN  /\ Len(rows) = Len(want)
        /\ \A i \in 1..(Len(rows) - 1) : rows[i][1] <= rows[i + 1][1]
        /\ \A m \in {want[i][1] : i \in 1..Len(want)}
                    \cup {rows[i][1] : i \in 1..Len(rows)} :
              OfMonth(rows, m) = OfMonth(want, m)

\* Two kept entries of one month, the larger amount entered first: a sort
\* that is not stable, or a sort by amount, would swap them.
C9_Witness ==
    /\ Len(ExpectedExtras) = 2
    /\ ExpectedExtras[1][1] = ExpectedExtras[2][1]
    /\ ExpectedExtras[1][2] > ExpectedExtras[2][2]
    /\ ExtraRowsOfSchedule = ExpectedExtras

\* C10. fullPrice equals area x 365000 in every reachable state.
C10_FullPriceIsAreaTimesBase == fullPrice = area * BASE_PRICE_PER_M2


\* The inputs of Scenario A, which are the component's default inputs.
IsScenarioA ==
    /\ area = 500
    /\ pricePerM2 = 350000
    /\ initialPayment = 20000000
    /\ months = 36
    /\ balloonPct = 25
    /\ roundingMultiple = 0
    /\ extras = <<[month |-> 12, amount |-> 0]>>

\* C11. Scenario A: netPrice is 175,000,000; the schedule has 36 monthly
\* rows of 3,090,278 each (111,250,008 in total), no extra row, and a
\* balloon row of 43,749,992.
C11_ScenarioA ==
    IsScenarioA =>
        LET rows == schedule
            ms == OfType(rows, "monthly")
            bs == OfType(rows, "balloon")
        IN  /\ netPrice = 175000000
            /\ Len(ms) = 36
            /\ \A i \in 1..Len(ms) : ms[i].amount = 3090278
            /\ SumRows(ms) = 111250008
            /\ OfType(rows, "extra") = <<>>
            /\ Len(bs) = 1
            /\ bs[1].amount = 43749992

\* The default inputs, with the schedule and its totals computed.
C11_Witness ==
    /\ IsScenarioA
    /\ Len(schedule) = 38
    /\ totals.monthlyTotal = 111250008
    /\ totals.balloon = 43749992

\* C12. Balloon ceiling on the target: balloonTarget is netPrice times the
\* balloon percent held to 0..90, over 100; so it lies between 0 and 90% of
\* netPrice.  (netPrice is a multiple of 100 in every state enumerated.)
C12_BalloonTarget ==
    LET pct == IF balloonPct < 0 THEN 0
               ELSE IF balloonPct > 90 THEN 90 ELSE balloonPct
    IN  /\ netPrice % 100 = 0
        /\ balloonValue = pct * (netPrice \div 100)
        /\ 0 <= balloonValue
        /\ 10 * balloonValue <= 9 * netPrice

\* A percent above 90, held to 90, at a positive net price.
C12_Witness == balloonPct > 90 /\ netPrice > 0 /\ 10 * balloonValue = 9 * netPrice


\* Rounding of the quotient num/den (num >= 0, den > 0) to a multiple of g,
\* or to an integer when g is 0, as the properties state it.
UpTo(num, den, g) ==
    IF g = 0 THEN (num + den - 1) \div den
    ELSE ((num + den * g - 1) \div (den * g)) * g

DownTo(num, den, g) ==
    IF g = 0 THEN num \div den ELSE (num \div (den * g)) * g

RECURSIVE SumOfPairs(_)
SumOfPairs(ps) ==
    IF ps = <<>> THEN 0
    ELSE SumOfPairs(SubSeq(ps, 1, Len(ps) - 1)) + ps[Len(ps)][2]

\* C13. Reconciliation follows the specified steps: with base = max(0,
\* netPrice - cappedInitial - balloonTarget - extrasSum) and n = max(0,
\* Horizon - count of valid extras): if n = 0 the installment is 0 and the
\* balloon is the target; otherwise the installment rounded up is kept, and
\* the balloon reduced by its surplus, exactly when that balloon is >= 0;
\* otherwise the installment is rounded down and the balloon is
\* max(0, target + base - installment x n).
C13_Reconciliation ==
    LET valid == ExpectedExtras
        target == balloonValue
        base == Max(0, netPrice - cappedInitial - target - SumOfPairs(valid))
        n == Max(0, Horizon - Len(valid))
        g == roundingMultiple
        up == UpTo(base, n, g)
        surplus == up * n - base
        down == Max(0, DownTo(base, n, g))
        got == [installment |-> monthlyInstallment, balloon |-> adjustedBalloon]
    IN  IF n = 0
        THEN got = [installment |-> 0, balloon |-> target]
        ELSE IF target - surplus >= 0
        THEN got = [installment |-> up, balloon |-> target - surplus]
        ELSE got = [installment |-> down,
                    balloon |-> Max(0, target + base - down * n)]

\* The round-down branch taken beside a valid extra, with rounding on and a
\* positive installment.
C13_Witness ==
    /\ numMonthlyPayments > 0
    /\ Len(validExtras) > 0
    /\ roundingMultiple > 0
    /\ balloonAfterUp < 0
    /\ monthlyInstallment = candidateDown
    /\ candidateDown > 0
    /\ adjustedBalloon > balloonValue


\* C14. Reconciliation identity: cappedInitial + monthlyInstallment x
\* numMonthlyPayments + extrasSum + adjustedBalloon equals netPrice up to one
\* currency unit, in both branches and with numMonthlyPayments = 0, also
\* when cappedInitial + balloonTarget + extrasSum exceeds netPrice.
C14_ReconciliationIdentity ==
    Abs(cappedInitial + monthlyInstallment * numMonthlyPayments + extrasSum
            + adjustedBalloon - netPrice) <= 1


\* The months that carry a valid extra, and whether no two valid extras
\* target the same month.
ExtraMonths == {ExpectedExtras[i][1] : i \in 1..Len(ExpectedExtras)}

NoSharedMonth == Cardinality(ExtraMonths) = Len(ExpectedExtras)

\* C15 as stated. The number of "monthly" rows is Horizon minus the number
\* of distinct months with a valid extra; numMonthlyPayments is Horizon minus
\* the number of valid extra entries; the two are equal exactly when no two
\* valid extras target the same month, and only then is the sum of the
\* monthly rows monthlyInstallment x numMonthlyPayments.
C15_CountsAsStated ==
    LET ms == OfType(schedule, "monthly")
        n == numMonthlyPayments
    IN  /\ Len(ms) = Horizon - Cardinality(ExtraMonths)
        /\ n = Horizon - Len(ExpectedExtras)
        /\ (Len(ms) = n) <=> NoSharedMonth
        /\ (SumRows(ms) = monthlyInstallment * n) <=> NoSharedMonth

\* C15 as amended. The number of "monthly" rows is Horizon minus the number
\* of distinct months with a valid extra; numMonthlyPayments is max(0,
\* Horizon minus the number of valid extra entries); the two are equal
\* exactly when no two valid extras target the same month or there is no
\* monthly row at all; and the sum of the monthly rows is monthlyInstallment
\* x numMonthlyPayments exactly when the two are equal or the installment
\* is 0.
C15_Counts ==
    LET ms == OfType(schedule, "monthly")
        n == numMonthlyPayments
        installment == monthlyInstallment
    IN  /\ Len(ms) = Horizon - Cardinality(ExtraMonths)
        /\ n = Max(0, Horizon - Len(ExpectedExtras))
        /\ (Len(ms) = n) <=> (NoSharedMonth \/ Len(ms) = 0)
        /\ (SumRows(ms) = installment * n) <=> (Len(ms) = n \/ installment = 0)

\* Two valid extras in one month: one monthly row more than the installment
\* was sized for, and a sum of monthly rows above installment x n.
C15_Witness ==
    LET ms == OfType(schedule, "monthly")
    IN  /\ ~NoSharedMonth
        /\ monthlyInstallment > 0
        /\ Len(ms) = numMonthlyPayments + 1
        /\ SumRows(ms) = monthlyInstallment * numMonthlyPayments + monthlyInstallment


\* C16. Rounding moves the balloon in the direction of its branch: in the
\* round-up branch balloonTarget - numMonthlyPayments x max(1,
\* roundingMultiple) < adjustedBalloon <= balloonTarget; in the round-down
\* branch adjustedBalloon >= balloonTarget, and the value the final
\* max(0, .) receives is already >= 0, so the clamp leaves it unchanged.
C16_BalloonDirection ==
    LET n == numMonthlyPayments
        target == balloonValue
        balloon == adjustedBalloon
        unit == IF roundingMultiple > 1 THEN roundingMultiple ELSE 1
    IN  n > 0 =>
            IF balloonAfterUp >= 0
            THEN target - n * unit < balloon /\ balloon <= target
            ELSE /\ balloon >= target
                 /\ target + (baseForMonthly - totalMonthlyDown) >= 0
                 /\ balloon = target + (baseForMonthly - totalMonthlyDown)

\* The round-down branch taken with a positive balloon target, the balloon
\* grown by a positive shortfall.
C16_Witness ==
    /\ numMonthlyPayments > 0
    /\ balloonAfterUp < 0
    /\ balloonValue > 0
    /\ adjustedBalloon > balloonValue


====
